---- MODULE Spec2Model ----
(***************************************************************************)
(* Model of the Home component of src/src/app/page.tsx: the React state,  *)
(* the record store ('entries' table), the blob store ('images' bucket)    *)
(* and the asynchronous event handlers.  Every await of a handler is a    *)
(* suspension point: the call is issued in one step and returns, with     *)
(* success or error, in a later step.  A handler works on the values its  *)
(* closure captured when it was invoked.                                   *)
(***************************************************************************)
EXTENDS Integers, Sequences, FiniteSets, TLC

\* ---------------------------------------------------------------- bounds
MaxRuns == 1      \* handler invocations that get past their early return
MaxFiles == 2     \* files in one selection

\* ------------------------------------------------------- strings as data
\* A string is a sequence of one-character strings.
Whitespace == {" ", "\t", "\n"}

RECURSIVE TrimStart(_)
TrimStart(s) ==
  IF s # <<>> /\ Head(s) \in Whitespace THEN TrimStart(Tail(s)) ELSE s

RECURSIVE TrimEnd(_)
TrimEnd(s) ==
  IF s # <<>> /\ s[Len(s)] \in Whitespace
    THEN TrimEnd(SubSeq(s, 1, Len(s) - 1))
    ELSE s

\* String.prototype.trim
Trim(s) == TrimEnd(TrimStart(s))

\* s.split(sep).pop(): the part of s after the last sep, all of s without one
RECURSIVE SplitPop(_, _)
SplitPop(s, sep) ==
  IF \E k \in 1..Len(s) : s[k] = sep
    THEN SplitPop(Tail(s), sep)
    ELSE s

\* the token standing for the n-th crypto.randomUUID() result
UniqueToken(n) ==
  <<"1", "2", "3", "4", "5", "6", "7", "8", "9", "a", "b", "c", "d", "e">>[n]

\* `${user.id}/${unique}.${fileExt}` with fileExt = file.name.split('.').pop()
StoragePath(u, n, file) ==
  <<u, "/", UniqueToken(n), ".">> \o SplitPop(file.name, ".")

\* storage.from('images').getPublicUrl(path).data.publicUrl: the address
\* of the bucket's public endpoint followed by the path
getPublicUrl(path) == <<"https://", "storage", "/", "images", "/">> \o path

\* ------------------------------------------------------------ data types
NoUser == ""
Users == {"u"}

NoEntry ==
  [id |-> 0, user_id |-> NoUser, medicine_name |-> <<>>,
   image_urls |-> <<>>, created_at |-> 0]

NoNotification == [message |-> "", type |-> "none"]

\* what the user types: blanks only, or a name with a leading blank
Labels == {<<" ">>, <<" ", "b">>}

FileP == [name |-> <<"x", ".", "p">>]
FileQ == [name |-> <<"y">>]
\* a file whose name ends with a dot
FileDot == [name |-> <<"z", ".">>]
FileAt(k) == IF k % 2 = 1 THEN FileP ELSE FileQ

\* the selections a file dialog or a drop can deliver
FileSelections == {[k \in 1..n |-> FileAt(k)] : n \in 0..MaxFiles}

VARIABLES
  user, loading, entries, text, files,          \* useState of Home
  searchTerm, editingEntry, editText, editFiles,
  notification,
  downloads,    \* files handed to saveAs
  timers,       \* pending setTimeout callbacks of showNotification
  records,      \* rows of the 'entries' table
  blobs,        \* object paths in the 'images' bucket
  clock,        \* server clock: created_at and id of the next row
  uniq,         \* number of unique upload names drawn so far
  fetches,      \* fetchEntries calls in flight
  tasks,        \* running or finished invocations of the async handlers
  runs          \* handler invocations that may still issue a call

formVars == <<text, files>>
editVars == <<editingEntry, editText, editFiles>>
noteVars == <<notification, timers>>
serverVars == <<records, blobs, clock>>
vars == <<user, loading, entries, text, files, searchTerm, editingEntry,
          editText, editFiles, notification, downloads, timers, records,
          blobs, clock, uniq, fetches, tasks, runs>>

\* the slots for handler invocations; an invocation is one run of an async
\* handler from its event to its return
TaskIds == DOMAIN tasks

\* new JSZip(): no folder, no file
EmptyZip == [folders |-> {}, files |-> {}]

IdleTask ==
  [kind |-> "none", pc |-> "idle", user |-> NoUser, text |-> <<>>,
   files |-> <<>>, i |-> 0, urls |-> <<>>, entry |-> NoEntry,
   entries |-> <<>>, e |-> 0, zip |-> EmptyZip, log |-> <<>>]

Active(t) == tasks[t].pc \notin {"idle", "done"}
\* an invocation takes the first slot that holds no running handler
Free(t) == ~Active(t) /\ \A q \in 1..(t - 1) : Active(q)

NeverFinished(me, log) == [me EXCEPT !.pc = "stuck", !.log = log]

\* a handler returns: what is left of the invocation is its call log (and
\* the list it read)
Finished(me, log) ==
  [IdleTask EXCEPT !.kind = me.kind, !.pc = "done", !.log = log,
                   !.entries = me.entries]

\* a call record of a handler's log
Call(op, arg) == [op |-> op, arg |-> arg, res |-> "pending"]
Returned(log, r) == [log EXCEPT ![Len(log)].res = r]
Outcome(ok) == IF ok THEN "ok" ELSE "error"
LastCall(log) == log[Len(log)]

\* the stores a session can find: rows of earlier sessions with their
\* blobs, stored under the paths handleSubmit gives them
RowOne ==
  [id |-> 1, user_id |-> "u", medicine_name |-> <<"A", "/", "B">>,
   image_urls |-> <<StoragePath("u", 10, FileP), StoragePath("u", 11, FileDot)>>,
   created_at |-> 1]
RowTwo ==
  [id |-> 2, user_id |-> "u", medicine_name |-> <<"a">>,
   image_urls |-> <<>>, created_at |-> 2]
RowThree ==
  [id |-> 3, user_id |-> "u", medicine_name |-> <<"A", "-", "B">>,
   image_urls |-> <<StoragePath("u", 12, FileP), StoragePath("u", 13, FileQ),
                    StoragePath("u", 14, FileP)>>,
   created_at |-> 3]
StoredRows == {RowOne, RowTwo, RowThree}
InitialStores == {{}, {RowOne, RowTwo}}

\* the server clock when the page is opened, after every stored row
InitialClock == Cardinality(StoredRows) + 1

BlobsOf(rows) ==
  UNION {{r.image_urls[k] : k \in 1..Len(r.image_urls)} : r \in rows}

\* ------------------------------------------------------ record store API
RECURSIVE OrderDesc(_)
\* .order('created_at', { ascending: false }) over a set of rows
OrderDesc(rows) ==
  IF rows = {} THEN <<>>
  ELSE LET newest ==
             CHOOSE r \in rows : \A q \in rows : q.created_at <= r.created_at
       IN <<newest>> \o OrderDesc(rows \ {newest})

\* from('entries').select('*').eq('user_id', u).order('created_at', desc)
SelectByOwner(u) == OrderDesc({r \in records : r.user_id = u})

\* the row the server stores for insert([{ user_id, medicine_name, image_urls }])
NewRow(row) ==
  [id |-> clock, user_id |-> row.user_id, medicine_name |-> row.medicine_name,
   image_urls |-> row.image_urls, created_at |-> clock]

\* ----------------------------------------------------- shared sub-steps
\* showNotification(message, type): set the banner, start a 3 s timer
showNotification(message, type) ==
  /\ notification' = [message |-> message, type |-> type]
  /\ timers' = timers + 1

\* the synchronous part of fetchEntries(): return without a user, else
\* issue the select
fetchEntries(u) ==
  fetches' = IF u = NoUser
               THEN fetches
               ELSE Append(fetches, [user |-> u, st |-> "sent", data |-> <<>>])

\* the elements of a sequence
Range(s) == {s[k] : k \in 1..Len(s)}

RemoveAt(s, k) == SubSeq(s, 1, k - 1) \o SubSeq(s, k + 1, Len(s))

\* String.prototype.toLowerCase over the letters of the model
LowerChar(c) == IF c = "A" THEN "a" ELSE IF c = "B" THEN "b" ELSE c
ToLowerCase(s) == [k \in 1..Len(s) |-> LowerChar(s[k])]

\* String.prototype.includes: term occurs in s from some position on
RECURSIVE Includes(_, _)
Includes(s, term) ==
  IF Len(term) <= Len(s) /\ SubSeq(s, 1, Len(term)) = term THEN TRUE
  ELSE IF s = <<>> THEN FALSE
  ELSE Includes(Tail(s), term)

EntryMatchesCaseSensitive(entry, term) == Includes(entry.medicine_name, term)

\* entry.medicine_name.toLowerCase().includes(searchTerm.toLowerCase())
EntryMatches(entry, term) ==
  Includes(ToLowerCase(entry.medicine_name), ToLowerCase(term))

\* Array.prototype.filter with the predicate above
RECURSIVE FilterEntries(_, _)
FilterEntries(es, term) ==
  IF es = <<>> THEN <<>>
  ELSE (IF EntryMatches(Head(es), term) THEN <<Head(es)>> ELSE <<>>)
         \o FilterEntries(Tail(es), term)

\* const filteredEntries = entries.filter(...), computed at every render
filteredEntries == FilterEntries(entries, searchTerm)

\* the page below the loading and sign-in screens is on display
PageRendered == ~loading /\ user # NoUser

\* a handler run that issues calls: counted against the bound
StartRun ==
  /\ runs > 0
  /\ runs' = runs - 1

\* ------------------------------------------------------------- session
\* getSession() resolves: setUser(session?.user ?? null); setLoading(false);
\* then the effect on [user, fetchEntries] runs
GetSessionReturn(u) ==
  /\ loading
  /\ user' = u
  /\ loading' = FALSE
  /\ fetchEntries(u)
  /\ entries' = IF u = NoUser THEN <<>> ELSE entries
  /\ UNCHANGED <<searchTerm, downloads, formVars, editVars, noteVars,
                 serverVars, uniq, tasks, runs>>

\* onAuthStateChange callback: setUser(session?.user ?? null), then the
\* effect: fetchEntries() with a user, setEntries([]) without
AuthStateChange(u) ==
  /\ u # NoUser => Len(fetches) < MaxRuns
  /\ user' = u
  /\ fetchEntries(u)
  /\ entries' = IF u = NoUser THEN <<>> ELSE entries
  /\ UNCHANGED <<loading, downloads, searchTerm, formVars, editVars, noteVars,
                 serverVars, uniq, tasks, runs>>

\* ------------------------------------------------------- fetchEntries
\* the record store answers the select of fetch k
FetchSelect(k) ==
  /\ fetches[k].st = "sent"
  /\ fetches' = [fetches EXCEPT ![k].st = "data",
                                ![k].data = SelectByOwner(fetches[k].user)]
  /\ UNCHANGED <<user, loading, downloads, searchTerm, entries, formVars,
                 editVars, noteVars, serverVars, uniq, tasks, runs>>

\* the answer arrives: else setEntries(data || [])
FetchData(k) ==
  /\ fetches[k].st = "data"
  /\ entries' = fetches[k].data
  /\ fetches' = RemoveAt(fetches, k)
  /\ UNCHANGED <<user, loading, downloads, searchTerm, formVars, editVars,
                 noteVars, serverVars, uniq, tasks, runs>>

\* the select fails: if (error) console.error(error)
FetchError(k) ==
  /\ fetches[k].st = "sent"
  /\ fetches' = RemoveAt(fetches, k)
  /\ UNCHANGED <<user, loading, downloads, searchTerm, entries, formVars,
                 editVars, noteVars, serverVars, uniq, tasks, runs>>

\* ------------------------------------------------------- notification
\* setTimeout(() => setNotification(null), 3000) fires
TimerFire ==
  /\ timers > 0
  /\ timers' = timers - 1
  /\ notification' = NoNotification
  /\ UNCHANGED <<user, loading, downloads, searchTerm, entries, formVars,
                 editVars, serverVars, uniq, fetches, tasks, runs>>

\* ------------------------------------------------------------ the form
\* onChange of the label input: setText(e.target.value)
SetText(s) ==
  /\ PageRendered
  /\ text' = s
  /\ UNCHANGED <<user, loading, downloads, searchTerm, entries, files,
                 editVars, noteVars, serverVars, uniq, fetches, tasks, runs>>

\* onDrop: setFiles(acceptedFiles)
onDrop(acceptedFiles) ==
  /\ PageRendered
  /\ files' = acceptedFiles
  /\ UNCHANGED <<user, loading, downloads, searchTerm, entries, text, editVars,
                 noteVars, serverVars, uniq, fetches, tasks, runs>>

\* handleAddMoreFiles: setFiles(prev => [...prev, ...selectedFiles]); the
\* button is on display with at least one file selected
handleAddMoreFiles(selectedFiles) ==
  /\ PageRendered
  /\ Len(files) > 0
  /\ Len(files) + Len(selectedFiles) <= MaxFiles
  /\ files' = files \o selectedFiles
  /\ UNCHANGED <<user, loading, downloads, searchTerm, entries, text, editVars,
                 noteVars, serverVars, uniq, fetches, tasks, runs>>

\* what the user types into the search box
SearchTerms == {<<>>, <<"a">>, <<"B">>, <<"/", "b">>, <<"b", "a">>}

\* onChange of the search box: setSearchTerm(e.target.value)
SetSearchTerm(s) ==
  /\ PageRendered
  /\ searchTerm' = s
  /\ UNCHANGED <<user, loading, downloads, entries, formVars, editVars,
                 noteVars, serverVars, uniq, fetches, tasks, runs>>

\* ------------------------------------------------------- handleSubmit
IssueUploadBackwards(t, me, i) ==
  /\ uniq' = uniq + 1
  /\ tasks' = [tasks EXCEPT ![t] =
       [me EXCEPT !.pc = "upload", !.i = i,
          !.log = Append(me.log,
                    Call("upload",
                         StoragePath(me.user, uniq + 1,
                                     me.files[Len(me.files) + 1 - i])))]]

\* one turn of `for (const file of files)`: draw the unique name and issue
\* storage.from('images').upload(path, file) for file number i
IssueUpload(t, me, i) ==
  /\ uniq' = uniq + 1
  /\ tasks' = [tasks EXCEPT ![t] =
       [me EXCEPT !.pc = "upload", !.i = i,
          !.log = Append(me.log,
                    Call("upload", StoragePath(me.user, uniq + 1, me.files[i])))]]

\* from('entries').insert([{ user_id, medicine_name, image_urls }])
IssueInsert(t, me) ==
  /\ uniq' = uniq
  /\ tasks' = [tasks EXCEPT ![t] =
       [me EXCEPT !.pc = "insert",
          !.log = Append(me.log,
                    Call("insert", [user_id |-> me.user, medicine_name |-> me.text,
                                    image_urls |-> me.urls]))]]

SubmitReturnsEarlyUntrimmed == text = <<>> \/ Len(files) = 0 \/ user = NoUser

\* if (!text.trim() || files.length === 0 || !user) return;
SubmitReturnsEarly == Trim(text) = <<>> \/ Len(files) = 0 \/ user = NoUser

\* the submit event of the form: handleSubmit up to its first await
handleSubmit(t) ==
  /\ PageRendered
  /\ Free(t)
  /\ LET me == [IdleTask EXCEPT !.kind = "handleSubmit", !.user = user,
                                !.text = text, !.files = files]
     IN IF SubmitReturnsEarly
          THEN /\ tasks' = [tasks EXCEPT ![t] = Finished(me, <<>>)]
               /\ UNCHANGED <<uniq, runs>>
          ELSE /\ StartRun
               /\ IssueUpload(t, me, 1)
  /\ UNCHANGED <<user, loading, downloads, searchTerm, entries, formVars,
                 editVars, noteVars, serverVars, fetches>>

SubmitUploadReturnKeepsFailed(t, ok) ==
  /\ tasks[t].kind = "handleSubmit"
  /\ tasks[t].pc = "upload"
  /\ LET cur == tasks[t]
         path == cur.log[Len(cur.log)].arg
         me == [cur EXCEPT !.log = Returned(cur.log, Outcome(ok)),
                           !.urls = Append(cur.urls, path)]
     IN /\ blobs' = IF ok THEN blobs \cup {path} ELSE blobs
        /\ IF cur.i < Len(cur.files)
             THEN IssueUpload(t, me, cur.i + 1)
             ELSE IssueInsert(t, me)
  /\ UNCHANGED <<user, loading, downloads, searchTerm, entries, formVars,
                 editVars, noteVars, records, clock, fetches, runs>>

\* an upload of handleSubmit returns: on error skip the file, else push the
\* storage path; then the next file, or the insert after the last one
SubmitUploadReturn(t, ok) ==
  /\ tasks[t].kind = "handleSubmit"
  /\ tasks[t].pc = "upload"
  /\ LET cur == tasks[t]
         path == cur.log[Len(cur.log)].arg
         me == [cur EXCEPT !.log = Returned(cur.log, Outcome(ok)),
                           !.urls = IF ok THEN Append(cur.urls, path)
                                          ELSE cur.urls]
     IN /\ blobs' = IF ok THEN blobs \cup {path} ELSE blobs
        /\ IF cur.i < Len(cur.files)
             THEN IssueUpload(t, me, cur.i + 1)
             ELSE IssueInsert(t, me)
  /\ UNCHANGED <<user, loading, downloads, searchTerm, entries, formVars,
                 editVars, noteVars, records, clock, fetches, runs>>

SubmitInsertErrorResets(t) ==
  /\ tasks[t].kind = "handleSubmit"
  /\ tasks[t].pc = "insert"
  /\ tasks' = [tasks EXCEPT ![t] =
                 Finished(tasks[t], Returned(tasks[t].log, "error"))]
  /\ showNotification("Upload unsuccessful", "error")
  /\ text' = <<>>
  /\ files' = <<>>
  /\ UNCHANGED <<user, loading, downloads, searchTerm, entries, editVars,
                 serverVars, uniq, fetches, runs>>

\* the insert returns with an error: notify, nothing else
SubmitInsertError(t) ==
  /\ tasks[t].kind = "handleSubmit"
  /\ tasks[t].pc = "insert"
  /\ tasks' = [tasks EXCEPT ![t] =
                 Finished(tasks[t], Returned(tasks[t].log, "error"))]
  /\ showNotification("Upload unsuccessful", "error")
  /\ UNCHANGED <<user, loading, downloads, searchTerm, entries, formVars,
                 editVars, serverVars, uniq, fetches, runs>>

\* the insert returns without error: the row is stored; reset the form,
\* refresh the list, notify
SubmitInsertOk(t) ==
  /\ tasks[t].kind = "handleSubmit"
  /\ tasks[t].pc = "insert"
  /\ LET cur == tasks[t]
     IN /\ records' = records \cup {NewRow(cur.log[Len(cur.log)].arg)}
        /\ clock' = clock + 1
        /\ tasks' = [tasks EXCEPT ![t] = Finished(cur, Returned(cur.log, "ok"))]
        /\ text' = <<>>
        /\ files' = <<>>
        /\ fetchEntries(cur.user)
        /\ showNotification("Upload successful", "success")
  /\ UNCHANGED <<user, loading, downloads, searchTerm, entries, editVars,
                 blobs, uniq, runs>>

\* -------------------------------------------------------- deleteEntry
\* the Delete and Edit buttons are on display for the rows not being edited
ViewRowIds == {e.id : e \in Range(filteredEntries)} \ {editingEntry.id}

\* the image deletion of deleteEntry is skipped without image references
DeleteSkipsRemove(entry) == ~(Len(entry.image_urls) > 0)

\* click on Delete: confirm(), then the lookup of the row
deleteEntry(t, id, confirmed) ==
  /\ PageRendered
  /\ Free(t)
  /\ id \in ViewRowIds
  /\ LET me == [IdleTask EXCEPT !.kind = "deleteEntry", !.user = user,
                                !.entry = [NoEntry EXCEPT !.id = id]]
     IN IF ~confirmed
          THEN /\ tasks' = [tasks EXCEPT ![t] = Finished(me, <<>>)]
               /\ runs' = runs
          ELSE /\ StartRun
               /\ tasks' = [tasks EXCEPT ![t] =
                    [me EXCEPT !.pc = "lookup", !.log = <<Call("select", id)>>]]
  /\ UNCHANGED <<user, loading, downloads, searchTerm, entries, formVars,
                 editVars, noteVars, serverVars, uniq, fetches>>

DeleteLookupErrorNotifies(t) ==
  /\ tasks[t].kind = "deleteEntry"
  /\ tasks[t].pc = "lookup"
  /\ tasks' = [tasks EXCEPT ![t] =
                 Finished(tasks[t], Returned(tasks[t].log, "error"))]
  /\ showNotification("Delete unsuccessful", "error")
  /\ UNCHANGED <<user, loading, downloads, searchTerm, entries, formVars,
                 editVars, serverVars, uniq, fetches, runs>>

\* select('*').eq('id', id).single() fails (no such row, or the call itself):
\* log and return
DeleteLookupError(t) ==
  /\ tasks[t].kind = "deleteEntry"
  /\ tasks[t].pc = "lookup"
  /\ tasks' = [tasks EXCEPT ![t] =
                 Finished(tasks[t], Returned(tasks[t].log, "error"))]
  /\ UNCHANGED <<user, loading, downloads, searchTerm, entries, formVars,
                 editVars, noteVars, serverVars, uniq, fetches, runs>>

\* the lookup returns the row: remove its images if it has any, else go on
\* to delete the row
DeleteLookupOk(t) ==
  /\ tasks[t].kind = "deleteEntry"
  /\ tasks[t].pc = "lookup"
  /\ \E row \in records :
       /\ row.id = tasks[t].entry.id
       /\ LET me == [tasks[t] EXCEPT !.entry = row,
                                     !.log = Returned(tasks[t].log, "ok")]
          IN tasks' = [tasks EXCEPT ![t] =
               IF DeleteSkipsRemove(row)
                 THEN [me EXCEPT !.pc = "delete",
                                 !.log = Append(me.log, Call("delete", row.id))]
                 ELSE [me EXCEPT !.pc = "remove",
                                 !.log = Append(me.log,
                                           Call("remove", row.image_urls))]]
  /\ UNCHANGED <<user, loading, downloads, searchTerm, entries, formVars,
                 editVars, noteVars, serverVars, uniq, fetches, runs>>

DeleteRemoveReturnAborts(t, ok) ==
  /\ tasks[t].kind = "deleteEntry"
  /\ tasks[t].pc = "remove"
  /\ LET cur == tasks[t]
     IN /\ blobs' = IF ok THEN blobs \ Range(cur.log[Len(cur.log)].arg)
                          ELSE blobs
        /\ tasks' = [tasks EXCEPT ![t] =
             IF ok
               THEN [cur EXCEPT !.pc = "delete",
                       !.log = Append(Returned(cur.log, "ok"),
                                      Call("delete", cur.entry.id))]
               ELSE Finished(cur, Returned(cur.log, "error"))]
  /\ UNCHANGED <<user, loading, downloads, searchTerm, entries, formVars,
                 editVars, noteVars, records, clock, uniq, fetches, runs>>

\* storage.from('images').remove(paths) returns; an error is logged only;
\* then the row is deleted
DeleteRemoveReturn(t, ok) ==
  /\ tasks[t].kind = "deleteEntry"
  /\ tasks[t].pc = "remove"
  /\ LET cur == tasks[t]
     IN /\ blobs' = IF ok THEN blobs \ Range(cur.log[Len(cur.log)].arg)
                          ELSE blobs
        /\ tasks' = [tasks EXCEPT ![t] =
             [cur EXCEPT !.pc = "delete",
                !.log = Append(Returned(cur.log, Outcome(ok)),
                               Call("delete", cur.entry.id))]]
  /\ UNCHANGED <<user, loading, downloads, searchTerm, entries, formVars,
                 editVars, noteVars, records, clock, uniq, fetches, runs>>

DeleteRowErrorRefreshes(t) ==
  /\ tasks[t].kind = "deleteEntry"
  /\ tasks[t].pc = "delete"
  /\ tasks' = [tasks EXCEPT ![t] =
                 Finished(tasks[t], Returned(tasks[t].log, "error"))]
  /\ fetchEntries(tasks[t].user)
  /\ showNotification("Delete unsuccessful", "error")
  /\ UNCHANGED <<user, loading, downloads, searchTerm, entries, formVars,
                 editVars, serverVars, uniq, runs>>

\* from('entries').delete().eq('id', id) fails: notify
DeleteRowError(t) ==
  /\ tasks[t].kind = "deleteEntry"
  /\ tasks[t].pc = "delete"
  /\ tasks' = [tasks EXCEPT ![t] =
                 Finished(tasks[t], Returned(tasks[t].log, "error"))]
  /\ showNotification("Delete unsuccessful", "error")
  /\ UNCHANGED <<user, loading, downloads, searchTerm, entries, formVars,
                 editVars, serverVars, uniq, fetches, runs>>

\* the row is deleted: refresh the list and notify
DeleteRowOk(t) ==
  /\ tasks[t].kind = "deleteEntry"
  /\ tasks[t].pc = "delete"
  /\ records' = {r \in records : r.id # tasks[t].entry.id}
  /\ tasks' = [tasks EXCEPT ![t] =
                 Finished(tasks[t], Returned(tasks[t].log, "ok"))]
  /\ fetchEntries(tasks[t].user)
  /\ showNotification("Delete successful", "success")
  /\ UNCHANGED <<user, loading, downloads, searchTerm, entries, formVars,
                 editVars, blobs, clock, uniq, runs>>

\* ----------------------------------------------------------- clearAll
\* entries.flatMap(e => e.image_urls || [])
RECURSIVE FlatMapImageUrls(_)
FlatMapImageUrls(es) ==
  IF es = <<>> THEN <<>>
  ELSE Head(es).image_urls \o FlatMapImageUrls(Tail(es))

ClearSkipsRemoveNever(es) == FALSE

\* the image deletion of clearAll is skipped for an empty list and for a
\* list without image references
ClearSkipsRemove(es) == ~(Len(es) > 0 /\ Len(FlatMapImageUrls(es)) > 0)

\* the call that follows the image deletion of clearAll:
\* from('entries').delete().eq('user_id', user?.id)
ClearIssueDelete(me) ==
  [me EXCEPT !.pc = "delete",
             !.log = Append(me.log, Call("deleteByOwner", me.user))]

\* clearAll(): confirm(), then the image deletion or, without images, the
\* deletion of the rows
clearAll(t, confirmed) ==
  /\ ~loading
  /\ Free(t)
  /\ LET me == [IdleTask EXCEPT !.kind = "clearAll", !.user = user,
                                !.entries = entries]
     IN IF ~confirmed
          THEN /\ tasks' = [tasks EXCEPT ![t] = Finished(me, <<>>)]
               /\ runs' = runs
          ELSE /\ StartRun
               /\ tasks' = [tasks EXCEPT ![t] =
                    IF ClearSkipsRemove(me.entries)
                      THEN ClearIssueDelete(me)
                      ELSE [me EXCEPT !.pc = "remove",
                              !.log = <<Call("remove",
                                             FlatMapImageUrls(me.entries))>>]]
  /\ UNCHANGED <<user, loading, downloads, searchTerm, entries, formVars,
                 editVars, noteVars, serverVars, uniq, fetches>>

\* click on Clear All: the button is on display with a non-empty list
ClearAllClick(t, confirmed) ==
  /\ PageRendered
  /\ Len(entries) > 0
  /\ clearAll(t, confirmed)

ClearRemoveReturnAborts(t, ok) ==
  /\ tasks[t].kind = "clearAll"
  /\ tasks[t].pc = "remove"
  /\ LET cur == tasks[t]
     IN /\ blobs' = IF ok THEN blobs \ Range(cur.log[Len(cur.log)].arg)
                          ELSE blobs
        /\ tasks' = [tasks EXCEPT ![t] =
             IF ok
               THEN ClearIssueDelete([cur EXCEPT !.log = Returned(cur.log, "ok")])
               ELSE Finished(cur, Returned(cur.log, "error"))]
  /\ UNCHANGED <<user, loading, downloads, searchTerm, entries, formVars,
                 editVars, noteVars, records, clock, uniq, fetches, runs>>

\* the bulk image deletion returns; an error is logged only
ClearRemoveReturn(t, ok) ==
  /\ tasks[t].kind = "clearAll"
  /\ tasks[t].pc = "remove"
  /\ LET cur == tasks[t]
     IN /\ blobs' = IF ok THEN blobs \ Range(cur.log[Len(cur.log)].arg)
                          ELSE blobs
        /\ tasks' = [tasks EXCEPT ![t] =
             ClearIssueDelete([cur EXCEPT !.log = Returned(cur.log, Outcome(ok))])]
  /\ UNCHANGED <<user, loading, downloads, searchTerm, entries, formVars,
                 editVars, noteVars, records, clock, uniq, fetches, runs>>

\* the bulk row deletion fails: notify
ClearRowsError(t) ==
  /\ tasks[t].kind = "clearAll"
  /\ tasks[t].pc = "delete"
  /\ tasks' = [tasks EXCEPT ![t] =
                 Finished(tasks[t], Returned(tasks[t].log, "error"))]
  /\ showNotification("Clear all unsuccessful", "error")
  /\ UNCHANGED <<user, loading, downloads, searchTerm, entries, formVars,
                 editVars, serverVars, uniq, fetches, runs>>

ClearRowsOkRefetches(t) ==
  /\ tasks[t].kind = "clearAll"
  /\ tasks[t].pc = "delete"
  /\ records' = {r \in records : r.user_id # tasks[t].user}
  /\ tasks' = [tasks EXCEPT ![t] =
                 Finished(tasks[t], Returned(tasks[t].log, "ok"))]
  /\ fetchEntries(tasks[t].user)
  /\ showNotification("Clear all successful", "success")
  /\ UNCHANGED <<user, loading, downloads, searchTerm, entries, formVars,
                 editVars, blobs, clock, uniq, runs>>

\* the rows are deleted: setEntries([]) and notify
ClearRowsOk(t) ==
  /\ tasks[t].kind = "clearAll"
  /\ tasks[t].pc = "delete"
  /\ records' = {r \in records : r.user_id # tasks[t].user}
  /\ tasks' = [tasks EXCEPT ![t] =
                 Finished(tasks[t], Returned(tasks[t].log, "ok"))]
  /\ entries' = <<>>
  /\ showNotification("Clear all successful", "success")
  /\ UNCHANGED <<user, loading, downloads, searchTerm, formVars, editVars,
                 blobs, clock, uniq, fetches, runs>>

\* ---------------------------------------------------------- edit flow
\* the row in edit mode is on display: editingEntry?.id === entry.id
EditRowRendered ==
  /\ PageRendered
  /\ editingEntry # NoEntry
  /\ editingEntry.id \in {e.id : e \in Range(filteredEntries)}

\* click on Edit of a row in view mode
startEditing(entry) ==
  /\ PageRendered
  /\ entry.id \in ViewRowIds
  /\ editingEntry' = entry
  /\ editText' = entry.medicine_name
  /\ editFiles' = <<>>
  /\ UNCHANGED <<user, loading, downloads, searchTerm, entries, formVars,
                 noteVars, serverVars, uniq, fetches, tasks, runs>>

cancelEditingKeepsDraft ==
  /\ EditRowRendered
  /\ entries' = [k \in 1..Len(entries) |->
                   IF entries[k].id = editingEntry.id THEN editingEntry
                                                      ELSE entries[k]]
  /\ editingEntry' = NoEntry
  /\ editText' = <<>>
  /\ editFiles' = <<>>
  /\ UNCHANGED <<user, loading, downloads, searchTerm, formVars, noteVars,
                 serverVars, uniq, fetches, tasks, runs>>

\* click on Cancel
cancelEditing ==
  /\ EditRowRendered
  /\ editingEntry' = NoEntry
  /\ editText' = <<>>
  /\ editFiles' = <<>>
  /\ UNCHANGED <<user, loading, downloads, searchTerm, entries, formVars,
                 noteVars, serverVars, uniq, fetches, tasks, runs>>

\* array.filter(url => url !== imagePath)
RECURSIVE FilterOut(_, _)
FilterOut(urls, imagePath) ==
  IF urls = <<>> THEN <<>>
  ELSE IF Head(urls) # imagePath
         THEN <<Head(urls)>> \o FilterOut(Tail(urls), imagePath)
         ELSE FilterOut(Tail(urls), imagePath)

removeImageFromEntryDeletesBlob(imagePath) ==
  /\ EditRowRendered
  /\ imagePath \in Range(editingEntry.image_urls)
  /\ editingEntry' =
       [editingEntry EXCEPT !.image_urls = FilterOut(@, imagePath)]
  /\ blobs' = blobs \ {imagePath}
  /\ UNCHANGED <<user, loading, downloads, searchTerm, entries, formVars,
                 editText, editFiles, noteVars, records, clock, uniq, fetches,
                 tasks, runs>>

\* click on the x of an image of the draft
removeImageFromEntry(imagePath) ==
  /\ EditRowRendered
  /\ imagePath \in Range(editingEntry.image_urls)
  /\ editingEntry' =
       [editingEntry EXCEPT !.image_urls = FilterOut(@, imagePath)]
  /\ UNCHANGED <<user, loading, downloads, searchTerm, entries, formVars,
                 editText, editFiles, noteVars, serverVars, uniq, fetches,
                 tasks, runs>>

\* onChange of the label input of the draft: setEditText(e.target.value)
SetEditText(s) ==
  /\ EditRowRendered
  /\ editText' = s
  /\ UNCHANGED <<user, loading, downloads, searchTerm, entries, formVars,
                 editingEntry, editFiles, noteVars, serverVars, uniq, fetches,
                 tasks, runs>>

\* onChange of the file input of the draft: setEditFiles(Array.from(files))
SetEditFiles(selectedFiles) ==
  /\ EditRowRendered
  /\ editFiles' = selectedFiles
  /\ UNCHANGED <<user, loading, downloads, searchTerm, entries, formVars,
                 editingEntry, editText, noteVars, serverVars, uniq, fetches,
                 tasks, runs>>

\* from('entries').update({ medicine_name, image_urls }).eq('id', id)
IssueUpdate(t, me) ==
  /\ uniq' = uniq
  /\ tasks' = [tasks EXCEPT ![t] =
       [me EXCEPT !.pc = "update",
          !.log = Append(me.log,
                    Call("update", [id |-> me.entry.id, medicine_name |-> me.text,
                                    image_urls |-> me.urls]))]]

\* if (!editingEntry || !editText.trim()) return;
SaveReturnsEarly == editingEntry = NoEntry \/ Trim(editText) = <<>>

SaveStartUrlsEmpty == <<>>

\* const newImageUrls = [...editingEntry.image_urls]
SaveStartUrls == editingEntry.image_urls

\* click on Save: saveEditedEntry up to its first await
saveEditedEntry(t) ==
  /\ EditRowRendered
  /\ Free(t)
  /\ LET me == [IdleTask EXCEPT !.kind = "saveEditedEntry", !.user = user,
                                !.text = editText, !.files = editFiles,
                                !.entry = editingEntry, !.urls = SaveStartUrls]
     IN IF SaveReturnsEarly
          THEN /\ tasks' = [tasks EXCEPT ![t] = Finished(me, <<>>)]
               /\ UNCHANGED <<uniq, runs>>
          ELSE /\ StartRun
               /\ IF Len(editFiles) > 0
                    THEN IssueUpload(t, me, 1)
                    ELSE IssueUpdate(t, me)
  /\ UNCHANGED <<user, loading, downloads, searchTerm, entries, formVars,
                 editVars, noteVars, serverVars, fetches>>

\* an upload of saveEditedEntry returns: on error skip the file, else push
\* the storage path; then the next file, or the update after the last one
SaveUploadReturn(t, ok) ==
  /\ tasks[t].kind = "saveEditedEntry"
  /\ tasks[t].pc = "upload"
  /\ LET cur == tasks[t]
         path == cur.log[Len(cur.log)].arg
         me == [cur EXCEPT !.log = Returned(cur.log, Outcome(ok)),
                           !.urls = IF ok THEN Append(cur.urls, path)
                                          ELSE cur.urls]
     IN /\ blobs' = IF ok THEN blobs \cup {path} ELSE blobs
        /\ IF cur.i < Len(cur.files)
             THEN IssueUpload(t, me, cur.i + 1)
             ELSE IssueUpdate(t, me)
  /\ UNCHANGED <<user, loading, downloads, searchTerm, entries, formVars,
                 editVars, noteVars, records, clock, fetches, runs>>

SaveUpdateErrorLeavesEditing(t) ==
  /\ tasks[t].kind = "saveEditedEntry"
  /\ tasks[t].pc = "update"
  /\ tasks' = [tasks EXCEPT ![t] =
                 Finished(tasks[t], Returned(tasks[t].log, "error"))]
  /\ editingEntry' = NoEntry
  /\ editText' = <<>>
  /\ editFiles' = <<>>
  /\ showNotification("Update unsuccessful", "error")
  /\ UNCHANGED <<user, loading, downloads, searchTerm, entries, formVars,
                 serverVars, uniq, fetches, runs>>

\* the update fails: notify, the draft stays
SaveUpdateError(t) ==
  /\ tasks[t].kind = "saveEditedEntry"
  /\ tasks[t].pc = "update"
  /\ tasks' = [tasks EXCEPT ![t] =
                 Finished(tasks[t], Returned(tasks[t].log, "error"))]
  /\ showNotification("Update unsuccessful", "error")
  /\ UNCHANGED <<user, loading, downloads, searchTerm, entries, formVars,
                 editVars, serverVars, uniq, fetches, runs>>

\* the row as the update leaves it
Updated(r, fields) ==
  IF r.id = fields.id
    THEN [r EXCEPT !.medicine_name = fields.medicine_name,
                   !.image_urls = fields.image_urls]
    ELSE r

\* the update succeeds: leave edit mode, refresh the list, notify
SaveUpdateOk(t) ==
  /\ tasks[t].kind = "saveEditedEntry"
  /\ tasks[t].pc = "update"
  /\ LET cur == tasks[t]
     IN /\ records' = {Updated(r, cur.log[Len(cur.log)].arg) : r \in records}
        /\ tasks' = [tasks EXCEPT ![t] = Finished(cur, Returned(cur.log, "ok"))]
        /\ editingEntry' = NoEntry
        /\ editText' = <<>>
        /\ editFiles' = <<>>
        /\ fetchEntries(cur.user)
        /\ showNotification("Update successful", "success")
  /\ UNCHANGED <<user, loading, downloads, searchTerm, entries, formVars,
                 blobs, clock, uniq, runs>>

\* ------------------------------------------------------------ exports
WorksheetCountsNothing(es) ==
  [header |-> <<"Medicine Name", "Image Count">>,
   rows |-> [k \in 1..Len(es) |->
               [medicine_name |-> es[k].medicine_name, image_count |-> 0]]]

\* the rows exportCSV and exportXLSX add to the worksheet 'Entries'
Worksheet(es) ==
  [header |-> <<"Medicine Name", "Image Count">>,
   rows |-> [k \in 1..Len(es) |->
               [medicine_name |-> es[k].medicine_name,
                image_count |-> Len(es[k].image_urls)]]]

\* click on Export CSV or Export XLSX: fill the worksheet from entries and
\* start writing the buffer
ExportTable(t, kind) ==
  /\ PageRendered
  /\ Free(t)
  /\ StartRun
  /\ tasks' = [tasks EXCEPT ![t] =
       [IdleTask EXCEPT !.kind = kind, !.pc = "write", !.user = user,
                        !.entries = entries,
                        !.log = <<Call("writeBuffer", Worksheet(entries))>>]]
  /\ UNCHANGED <<user, loading, downloads, searchTerm, entries, formVars,
                 editVars, noteVars, serverVars, uniq, fetches>>

exportCSV(t) == ExportTable(t, "exportCSV")
exportXLSX(t) == ExportTable(t, "exportXLSX")

\* writeBuffer() resolves: saveAs(blob, 'entries.csv' or 'entries.xlsx')
WriteBufferReturn(t) ==
  /\ tasks[t].kind \in {"exportCSV", "exportXLSX"}
  /\ tasks[t].pc = "write"
  /\ downloads' = Append(downloads,
       [name |-> IF tasks[t].kind = "exportCSV" THEN "entries.csv"
                                                ELSE "entries.xlsx",
        content |-> LastCall(tasks[t].log).arg])
  /\ tasks' = [tasks EXCEPT ![t] =
                 Finished(tasks[t], Returned(tasks[t].log, "ok"))]
  /\ UNCHANGED <<user, loading, searchTerm, entries, formVars, editVars,
                 noteVars, serverVars, uniq, fetches, runs>>

\* the characters /[a-zA-Z0-9]/ matches
AlphaNumeric ==
  {"a", "b", "c", "d", "e", "f", "g", "h", "i", "j", "k", "l", "m", "n", "o",
   "p", "q", "r", "s", "t", "u", "v", "w", "x", "y", "z",
   "A", "B", "C", "D", "E", "F", "G", "H", "I", "J", "K", "L", "M", "N", "O",
   "P", "Q", "R", "S", "T", "U", "V", "W", "X", "Y", "Z",
   "0", "1", "2", "3", "4", "5", "6", "7", "8", "9"}

\* entry.medicine_name.replace(/[^a-zA-Z0-9]/g, '_')
FolderName(label) ==
  [k \in 1..Len(label) |-> IF label[k] \in AlphaNumeric THEN label[k] ELSE "_"]

\* zip.folder(folderName)
ZipFolder(zip, folderName) ==
  [zip EXCEPT !.folders = @ \cup {folderName}]

ZipFileKeepsBoth(zip, folderName, name, data) ==
  [zip EXCEPT !.files =
     @ \cup {[folder |-> folderName, name |-> name, data |-> data]}]

\* folder.file(name, data): a file of that name in the folder is replaced
ZipFile(zip, folderName, name, data) ==
  [zip EXCEPT !.files =
     {f \in @ : ~(f.folder = folderName /\ f.name = name)}
       \cup {[folder |-> folderName, name |-> name, data |-> data]}]

\* the text of medicine_name.txt, and the bytes fetch(url) delivered
TextData(label) == [type |-> "text", of |-> label]
FetchedData(url) == [type |-> "bytes", of |-> url]

ImageExtWithoutDefault(url) == SplitPop(url, ".")

\* url.split('.').pop() || 'jpg'
ImageExt(url) ==
  LET ext == SplitPop(url, ".")
  IN IF ext = <<>> THEN <<"j", "p", "g">> ELSE ext

\* `image_${idx + 1}.${ext}`, k = idx + 1
ImageName(k, url) ==
  <<"image_", <<"1", "2", "3", "4", "5", "6", "7", "8", "9">>[k], ".">>
    \o ImageExt(url)

RECURSIVE ZipEnter(_, _)
RECURSIVE ZipNext(_, _, _)
\* exportZIP from image k of entry e on, up to the next await: the fetch of
\* the image, or generateAsync after the last entry
ZipNext(me, e, k) ==
  IF e > Len(me.entries)
    THEN [me EXCEPT !.pc = "generate",
                    !.log = Append(me.log, Call("generateAsync", <<>>))]
  ELSE IF k > Len(me.entries[e].image_urls)
    THEN ZipEnter(me, e + 1)
  ELSE [me EXCEPT !.pc = "fetch", !.e = e, !.i = k,
          !.log = Append(me.log, Call("fetch", me.entries[e].image_urls[k]))]

\* one turn of `for (const entry of entries)`: the folder and its
\* medicine_name.txt, then the images
ZipEnter(me, e) ==
  IF e > Len(me.entries) THEN ZipNext(me, e, 1)
  ELSE LET folderName == FolderName(me.entries[e].medicine_name)
       IN ZipNext([me EXCEPT !.zip =
                     ZipFile(ZipFolder(me.zip, folderName), folderName,
                             <<"medicine_name.txt">>,
                             TextData(me.entries[e].medicine_name))],
                  e, 1)

\* click on Images (zip): exportZIP up to its first await
exportZIP(t) ==
  /\ PageRendered
  /\ Free(t)
  /\ StartRun
  /\ tasks' = [tasks EXCEPT ![t] =
       ZipEnter([IdleTask EXCEPT !.kind = "exportZIP", !.user = user,
                                 !.entries = entries], 1)]
  /\ UNCHANGED <<user, loading, downloads, searchTerm, entries, formVars,
                 editVars, noteVars, serverVars, uniq, fetches>>

ZipFetchReturnLeavesEntry(t, ok) ==
  /\ tasks[t].kind = "exportZIP"
  /\ tasks[t].pc = "fetch"
  /\ LET cur == tasks[t]
         me == [cur EXCEPT !.log = Returned(cur.log, Outcome(ok))]
     IN tasks' = [tasks EXCEPT ![t] =
          IF ok
            THEN [me EXCEPT !.pc = "blob",
                    !.log = Append(me.log, Call("blob", LastCall(cur.log).arg))]
            ELSE ZipEnter(me, cur.e + 1)]
  /\ UNCHANGED <<user, loading, downloads, searchTerm, entries, formVars,
                 editVars, noteVars, serverVars, uniq, fetches, runs>>

\* fetch(url) resolves with a response, whose body is then read, or
\* rejects: the catch logs the error and the loop goes on
ZipFetchReturn(t, ok) ==
  /\ tasks[t].kind = "exportZIP"
  /\ tasks[t].pc = "fetch"
  /\ LET cur == tasks[t]
         me == [cur EXCEPT !.log = Returned(cur.log, Outcome(ok))]
     IN tasks' = [tasks EXCEPT ![t] =
          IF ok
            THEN [me EXCEPT !.pc = "blob",
                    !.log = Append(me.log, Call("blob", LastCall(cur.log).arg))]
            ELSE ZipNext(me, cur.e, cur.i + 1)]
  /\ UNCHANGED <<user, loading, downloads, searchTerm, entries, formVars,
                 editVars, noteVars, serverVars, uniq, fetches, runs>>

\* response.blob() resolves: the image is written under its index; or it
\* rejects: the catch logs the error and the loop goes on
ZipBlobReturn(t, ok) ==
  /\ tasks[t].kind = "exportZIP"
  /\ tasks[t].pc = "blob"
  /\ LET cur == tasks[t]
         url == cur.entries[cur.e].image_urls[cur.i]
         folderName == FolderName(cur.entries[cur.e].medicine_name)
         me == [cur EXCEPT !.log = Returned(cur.log, Outcome(ok)),
                  !.zip = IF ok
                            THEN ZipFile(@, folderName, ImageName(cur.i, url),
                                         FetchedData(LastCall(cur.log).arg))
                            ELSE @]
     IN tasks' = [tasks EXCEPT ![t] = ZipNext(me, cur.e, cur.i + 1)]
  /\ UNCHANGED <<user, loading, downloads, searchTerm, entries, formVars,
                 editVars, noteVars, serverVars, uniq, fetches, runs>>

\* zip.generateAsync() resolves: saveAs(content, 'entries.zip')
ZipGenerated(t) ==
  /\ tasks[t].kind = "exportZIP"
  /\ tasks[t].pc = "generate"
  /\ downloads' = Append(downloads,
       [name |-> "entries.zip", content |-> tasks[t].zip])
  /\ tasks' = [tasks EXCEPT ![t] =
                 Finished(tasks[t], Returned(tasks[t].log, "ok"))]
  /\ UNCHANGED <<user, loading, searchTerm, entries, formVars, editVars,
                 noteVars, serverVars, uniq, fetches, runs>>

\* -------------------------------------------------------------- system
\* the page is constructed (page.tsx:20-33) over one of the stores
\* the page before its session is known, with room for one invocation at
\* a time per slot and budget invocations in all
BootWith(stores, slots, budget) ==
  /\ user = NoUser
  /\ loading = TRUE
  /\ entries = <<>>
  /\ text = <<>>
  /\ files = <<>>
  /\ searchTerm = <<>>
  /\ editingEntry = NoEntry
  /\ editText = <<>>
  /\ editFiles = <<>>
  /\ notification = NoNotification
  /\ downloads = <<>>
  /\ timers = 0
  /\ records \in stores
  /\ blobs = BlobsOf(records)
  /\ clock = InitialClock
  /\ uniq = 0
  /\ fetches = <<>>
  /\ tasks = [t \in slots |-> IdleTask]
  /\ runs = budget

Boot(stores) == BootWith(stores, {1}, MaxRuns)

Init == Boot(InitialStores)
InitEmptyStore == Boot({{}})
InitOneRow == Boot({{RowOne}})
InitExport == Boot({{RowOne, RowTwo}, {RowOne, RowThree}})
\* one slot with room for one more invocation after the first has returned
InitAgain == BootWith({{RowOne}}, {1}, MaxRuns + 1)
\* two slots: a second invocation may start while the first is suspended
InitDouble == BootWith({{}}, {1, 2}, MaxRuns + 1)

SignIn == \E u \in Users \cup {NoUser} : GetSessionReturn(u)

\* a refresh is answered and its answer arrives
RefreshOk ==
  \/ \E k \in 1..Len(fetches) : FetchSelect(k)
  \/ \E k \in 1..Len(fetches) : FetchData(k)

Refresh ==
  \/ RefreshOk
  \/ \E k \in 1..Len(fetches) : FetchError(k)

Form ==
  \/ \E s \in Labels : SetText(s)
  \/ \E sel \in FileSelections : onDrop(sel)

\* the calls of handleSubmit return
SubmitReturns ==
  \/ \E t \in TaskIds, ok \in BOOLEAN : SubmitUploadReturn(t, ok)
  \/ \E t \in TaskIds : SubmitInsertError(t)
  \/ \E t \in TaskIds : SubmitInsertOk(t)

Submit ==
  \/ \E t \in TaskIds : handleSubmit(t)
  \/ SubmitReturns

NextSubmit == SignIn \/ Refresh \/ TimerFire \/ Form \/ Submit

SpecSubmit == InitEmptyStore /\ [][NextSubmit]_vars

RowIds == {r.id : r \in StoredRows} \cup {InitialClock}

\* the calls of deleteEntry return
DeleteReturns ==
  \/ \E t \in TaskIds : DeleteLookupError(t)
  \/ \E t \in TaskIds : DeleteLookupOk(t)
  \/ \E t \in TaskIds, ok \in BOOLEAN : DeleteRemoveReturn(t, ok)
  \/ \E t \in TaskIds : DeleteRowError(t)
  \/ \E t \in TaskIds : DeleteRowOk(t)

Delete ==
  \/ \E t \in TaskIds, id \in RowIds, c \in BOOLEAN : deleteEntry(t, id, c)
  \/ DeleteReturns

ClearReturns ==
  \/ \E t \in TaskIds, ok \in BOOLEAN : ClearRemoveReturn(t, ok)
  \/ \E t \in TaskIds : ClearRowsError(t)
  \/ \E t \in TaskIds : ClearRowsOk(t)

\* deleting and clearing from the page
NextDelete ==
  \/ SignIn \/ Refresh \/ TimerFire \/ Delete \/ ClearReturns
  \/ \E t \in TaskIds, c \in BOOLEAN : ClearAllClick(t, c)

SpecDelete == Init /\ [][NextDelete]_vars

\* deleting and clearing lists of entries with images
SpecClear == InitExport /\ [][NextDelete]_vars

\* clearAll called for every list, the empty one included
NextClearCall ==
  \/ SignIn \/ Refresh \/ TimerFire \/ ClearReturns
  \/ \E t \in TaskIds, c \in BOOLEAN : clearAll(t, c)

SpecClearCall == Init /\ [][NextClearCall]_vars

Search == \E s \in SearchTerms : SetSearchTerm(s)

\* searching the list while rows are deleted
NextFilter == SignIn \/ Refresh \/ TimerFire \/ Delete \/ Search

SpecFilter == Init /\ [][NextFilter]_vars

\* the awaited calls of the exports return
ExportReturns ==
  \/ \E t \in TaskIds : WriteBufferReturn(t)
  \/ \E t \in TaskIds, ok \in BOOLEAN : ZipFetchReturn(t, ok)
  \/ \E t \in TaskIds, ok \in BOOLEAN : ZipBlobReturn(t, ok)
  \/ \E t \in TaskIds : ZipGenerated(t)

Export ==
  \/ \E t \in TaskIds : exportCSV(t)
  \/ \E t \in TaskIds : exportXLSX(t)
  \/ \E t \in TaskIds : exportZIP(t)
  \/ ExportReturns

\* exporting the list as it is loaded
NextExport == SignIn \/ Refresh \/ Export

SpecExport == InitExport /\ [][NextExport]_vars

ImagePaths == BlobsOf(UNION InitialStores)

Draft ==
  \/ \E e \in Range(entries) : startEditing(e)
  \/ cancelEditing
  \/ \E path \in ImagePaths : removeImageFromEntry(path)
  \/ \E s \in Labels : SetEditText(s)
  \/ \E sel \in FileSelections : SetEditFiles(sel)

\* the calls of saveEditedEntry return
SaveReturns ==
  \/ \E t \in TaskIds, ok \in BOOLEAN : SaveUploadReturn(t, ok)
  \/ \E t \in TaskIds : SaveUpdateError(t)
  \/ \E t \in TaskIds : SaveUpdateOk(t)

Save ==
  \/ \E t \in TaskIds : saveEditedEntry(t)
  \/ SaveReturns

NextEdit == SignIn \/ Refresh \/ TimerFire \/ Draft \/ Save

SpecEdit == InitOneRow /\ [][NextEdit]_vars

AuthChange == \E u \in Users \cup {NoUser} : AuthStateChange(u)

\* the user types a label and selects files
FillForm ==
  \/ SetText(<<" ", "b">>)
  \/ onDrop([k \in 1..MaxFiles |-> FileAt(k)])

\* the user fills in the form, or opens a draft and adds files to it
FillIn ==
  \/ FillForm
  \/ \E e \in Range(entries) : startEditing(e)
  \/ SetEditFiles([k \in 1..MaxFiles |-> FileAt(k)])

\* every handler that writes to the stores, with session changes arriving
\* at any time
NextSession ==
  \/ SignIn \/ AuthChange \/ Refresh \/ TimerFire
  \/ FillIn \/ Submit \/ Delete \/ ClearReturns
  \/ \E t \in TaskIds, c \in BOOLEAN : ClearAllClick(t, c)
  \/ Save

SpecSession == InitOneRow /\ [][NextSession]_vars

\* every call a handler awaits returns
HandlerReturns ==
  SubmitReturns \/ DeleteReturns \/ ClearReturns \/ SaveReturns
    \/ ExportReturns

\* every handler of the page; each call in flight returns in the end
NextLive ==
  \/ SignIn \/ Refresh \/ TimerFire
  \/ FillIn \/ Submit \/ Delete \/ ClearReturns
  \/ \E t \in TaskIds, c \in BOOLEAN : ClearAllClick(t, c)
  \/ Save \/ Export

SpecLive ==
  /\ InitOneRow
  /\ [][NextLive]_vars
  /\ WF_vars(HandlerReturns)
  /\ WF_vars(Refresh)

\* submits and saves of forms and drafts with files
NextUploads == SignIn \/ Refresh \/ FillIn \/ Submit \/ Save

SpecUploads == InitOneRow /\ [][NextUploads]_vars

\* submits, saves and deletions whose refreshes all succeed, the answers
\* arriving in any order
NextRefreshed == SignIn \/ RefreshOk \/ FillIn \/ Submit \/ Save \/ Delete

SpecRefreshed == InitOneRow /\ [][NextRefreshed]_vars

\* a submit and a Clear All, one after the other, over a list that may be
\* behind the store
NextStale ==
  \/ SignIn \/ Refresh \/ FillForm \/ Submit \/ ClearReturns
  \/ \E t \in TaskIds, c \in BOOLEAN : ClearAllClick(t, c)

SpecStale == InitAgain /\ [][NextStale]_vars

\* two submits, one after the other, and the timers of their notifications
NextNotify == SignIn \/ Refresh \/ TimerFire \/ FillForm \/ Submit

SpecNotify == InitAgain /\ [][NextNotify]_vars

\* submit events on the form, also while an earlier submit is suspended
NextDouble == SignIn \/ Refresh \/ FillForm \/ Submit

SpecDouble == InitDouble /\ [][NextDouble]_vars

\* ------------------------------------------------------------- claims
\* the calls of a log by operation and result
CallsOf(log, op) == {k \in 1..Len(log) : log[k].op = op}
OkCallsOf(log, op) == {k \in CallsOf(log, op) : log[k].res = "ok"}

\* handler t makes a step that ends its run
Ends(t, kind) ==
  /\ tasks[t].kind = kind
  /\ Active(t)
  /\ tasks'[t].pc = "done"

\* an invocation of handler kind starts in slot t
Starts(t, kind) ==
  /\ ~Active(t)
  /\ tasks'[t] # tasks[t]
  /\ tasks'[t].kind = kind

Success(message) == [message |-> message, type |-> "success"]
Failure(message) == [message |-> message, type |-> "error"]

\* C1: a submit with a label that is not blank, at least one file and a
\* user, whose insert succeeds, has issued exactly one insert, of one new
\* row whose image list is as long as the number of uploads that succeeded,
\* between 0 and the number of selected files.
C1_SubmitStoresOneRow ==
  [][\A t \in TaskIds :
       (Ends(t, "handleSubmit") /\ LastCall(tasks'[t].log).res = "ok") =>
         LET log == tasks'[t].log
             new == records' \ records
         IN /\ Cardinality(CallsOf(log, "insert")) = 1
            /\ Cardinality(CallsOf(log, "upload")) = Len(tasks[t].files)
            /\ Cardinality(new) = 1
            /\ \A r \in new :
                 /\ Len(r.image_urls) = Cardinality(OkCallsOf(log, "upload"))
                 /\ Len(r.image_urls) \in 0..Len(tasks[t].files)
                 /\ r.image_urls = LastCall(log).arg.image_urls]_vars

\* a submit stored a row although one of its two uploads failed
C1_Witness ==
  \E t \in TaskIds :
    /\ tasks[t].kind = "handleSubmit"
    /\ tasks[t].pc = "done"
    /\ Len(tasks[t].log) = 3
    /\ tasks[t].log[1].res = "error"
    /\ tasks[t].log[2].res = "ok"
    /\ tasks[t].log[3].res = "ok"
    /\ \E r \in records : r.image_urls = <<tasks[t].log[2].arg>>

\* C2: a submit with a blank label or without files issues no call and
\* changes no state of the page.
C2_BlankSubmitIsNoOp ==
  [][\A t \in TaskIds :
       (Starts(t, "handleSubmit") /\ (Trim(text) = <<>> \/ Len(files) = 0)) =>
         /\ tasks'[t].pc = "done"
         /\ tasks'[t].log = <<>>
         /\ UNCHANGED <<user, loading, entries, text, files, editingEntry,
                        editText, editFiles, notification, timers, records,
                        blobs, clock, uniq, fetches, runs>>]_vars

\* a submit returned at once with files selected and a label of blanks
C2_Witness ==
  \E t \in TaskIds :
    /\ tasks[t].kind = "handleSubmit"
    /\ tasks[t].pc = "done"
    /\ tasks[t].log = <<>>
    /\ text = <<" ">>
    /\ Len(files) > 0
    /\ runs = 0

\* C3: when the insert of a submit fails, the only change of the page is
\* the failure notification: label, files and list stay and no refresh is
\* issued; nor does any earlier step of the submit touch label or files.
C3_FailedInsertKeepsForm ==
  [][\A t \in TaskIds :
       /\ (Ends(t, "handleSubmit") /\ LastCall(tasks'[t].log).res = "error") =>
            /\ notification' = Failure("Upload unsuccessful")
            /\ UNCHANGED <<user, loading, entries, text, files, editingEntry,
                           editText, editFiles, records, blobs, clock,
                           fetches>>
       /\ (tasks[t].kind = "handleSubmit" /\ tasks[t].pc = "upload"
             /\ tasks'[t] # tasks[t]) =>
            UNCHANGED <<entries, text, files, notification, fetches>>]_vars

\* a submit ended with a failed insert and the form still filled in
C3_Witness ==
  \E t \in TaskIds :
    /\ tasks[t].kind = "handleSubmit"
    /\ tasks[t].pc = "done"
    /\ tasks[t].log # <<>>
    /\ LastCall(tasks[t].log).op = "insert"
    /\ LastCall(tasks[t].log).res = "error"
    /\ text = <<" ", "b">>
    /\ Len(files) = MaxFiles
    /\ notification = Failure("Upload unsuccessful")

\* C4 as stated: every confirmed run of deleteEntry that found its row has
\* issued a blob removal and, after it, the deletion of the row.
C4_AlwaysRemovesBlobsFirst ==
  \A t \in TaskIds :
    (tasks[t].kind = "deleteEntry" /\ tasks[t].pc = "done"
       /\ tasks[t].log # <<>> /\ tasks[t].log[1].res = "ok") =>
      \E i, j \in 1..Len(tasks[t].log) :
        /\ i < j
        /\ tasks[t].log[i].op = "remove"
        /\ tasks[t].log[j].op = "delete"

\* C4 amended: when deleteEntry deletes a row that has image references, it
\* has issued, before that, one blob removal for exactly these references,
\* which has returned with or without error; for a row without image
\* references it issues no blob removal; and a run that issued a blob
\* removal goes on to issue the deletion of the row.
C4_RemovesBlobsFirstIfAny ==
  \A t \in TaskIds :
    LET me == tasks[t]
    IN me.kind = "deleteEntry" =>
         /\ me.pc = "remove" =>
              /\ CallsOf(me.log, "delete") = {}
              /\ LastCall(me.log) = Call("remove", me.entry.image_urls)
         /\ me.pc = "delete" =>
              /\ LastCall(me.log) = Call("delete", me.entry.id)
              /\ Cardinality(CallsOf(me.log, "delete")) = 1
              /\ IF Len(me.entry.image_urls) > 0
                   THEN /\ Len(me.log) = 3
                        /\ me.log[2].op = "remove"
                        /\ me.log[2].arg = me.entry.image_urls
                        /\ me.log[2].res \in {"ok", "error"}
                   ELSE /\ Len(me.log) = 2
                        /\ CallsOf(me.log, "remove") = {}
         /\ me.pc = "done" =>
              \A i \in CallsOf(me.log, "remove") :
                \E j \in CallsOf(me.log, "delete") : i < j

\* the deletion of the row is in flight after the blob removal has failed
C4_Witness ==
  \E t \in TaskIds :
    /\ tasks[t].kind = "deleteEntry"
    /\ tasks[t].pc = "delete"
    /\ Len(tasks[t].log) = 3
    /\ tasks[t].log[2].op = "remove"
    /\ tasks[t].log[2].res = "error"
    /\ tasks[t].log[3].op = "delete"

C6_DeleteOutcome ==
  [][\A t \in TaskIds :
       (Ends(t, "deleteEntry") /\ tasks[t].pc = "delete") =>
         IF LastCall(tasks'[t].log).res = "ok"
           THEN /\ fetches' = Append(fetches, [user |-> tasks[t].user,
                                               st |-> "sent", data |-> <<>>])
                /\ notification' = Success("Delete successful")
                /\ tasks[t].entry.id \notin {r.id : r \in records'}
           ELSE /\ fetches' = fetches
                /\ entries' = entries
                /\ records' = records
                /\ notification' = Failure("Delete unsuccessful")]_vars

\* the deletion of the row failed after the blobs had been removed: the
\* entry is still listed and stored, its blobs are gone
C6_Witness ==
  \E t \in TaskIds :
    /\ tasks[t].kind = "deleteEntry"
    /\ tasks[t].pc = "done"
    /\ Len(tasks[t].log) = 3
    /\ tasks[t].log[2].res = "ok"
    /\ tasks[t].log[3].res = "error"
    /\ notification = Failure("Delete unsuccessful")
    /\ fetches = <<>>
    /\ \E e \in Range(entries) :
         /\ e \in records
         /\ e.image_urls = tasks[t].log[2].arg
         /\ Range(e.image_urls) \cap blobs = {}

\* C7: in clearAll a successful deletion of the rows empties the list
\* without a fetch and shows the success notification; a failed one leaves
\* the list as it is and shows the failure notification only.
C7_ClearOutcome ==
  [][\A t \in TaskIds :
       (Ends(t, "clearAll") /\ tasks[t].pc = "delete") =>
         /\ fetches' = fetches
         /\ UNCHANGED <<user, loading, text, files, editingEntry, editText,
                        editFiles, blobs>>
         /\ IF LastCall(tasks'[t].log).res = "ok"
              THEN /\ entries' = <<>>
                   /\ notification' = Success("Clear all successful")
              ELSE /\ entries' = entries
                   /\ records' = records
                   /\ notification' = Failure("Clear all unsuccessful")]_vars

\* clearAll failed to delete the rows: the list is still loaded
C7_Witness ==
  \E t \in TaskIds :
    /\ tasks[t].kind = "clearAll"
    /\ tasks[t].pc = "done"
    /\ tasks[t].log # <<>>
    /\ LastCall(tasks[t].log).res = "error"
    /\ Len(entries) > 0
    /\ notification = Failure("Clear all unsuccessful")

\* C8: when the update of a save succeeds, the page leaves edit mode (no
\* draft, no draft label, no pending files) and a refresh is issued; when
\* it fails, draft, draft label and pending files stay as they are and the
\* failure notification is shown.
C8_SaveOutcome ==
  [][\A t \in TaskIds :
       Ends(t, "saveEditedEntry") =>
         IF LastCall(tasks'[t].log).res = "ok"
           THEN /\ editingEntry' = NoEntry
                /\ editText' = <<>>
                /\ editFiles' = <<>>
                /\ fetches' = Append(fetches, [user |-> tasks[t].user,
                                               st |-> "sent", data |-> <<>>])
                /\ notification' = Success("Update successful")
           ELSE /\ UNCHANGED <<editingEntry, editText, editFiles, entries,
                               records, fetches>>
                /\ notification' = Failure("Update unsuccessful")]_vars

\* a save failed at its update and the page is still in edit mode, with a
\* detached image and pending files in the draft
C8_Witness ==
  \E t \in TaskIds :
    /\ tasks[t].kind = "saveEditedEntry"
    /\ tasks[t].pc = "done"
    /\ tasks[t].log # <<>>
    /\ LastCall(tasks[t].log).res = "error"
    /\ editingEntry # NoEntry
    /\ editingEntry.image_urls = LastCall(tasks[t].log).arg.image_urls
    /\ editText = <<" ", "b">>
    /\ Len(editingEntry.image_urls) = 1
    /\ Len(editFiles) > 0
    /\ notification = Failure("Update unsuccessful")

\* the step is a click on Cancel, or on the x of an image of the draft
CancelStep ==
  editingEntry # NoEntry /\ editingEntry' = NoEntry /\ tasks' = tasks
DetachStep ==
  /\ editingEntry # NoEntry
  /\ editingEntry' # editingEntry
  /\ editingEntry'.id = editingEntry.id

\* C9: Cancel, from every draft, leaves edit mode with the draft dropped
\* and changes nothing else: no call is issued, the list and the stores
\* stay as they are; detaching an image changes the draft only.
C9_CancelHasNoEffect ==
  [][/\ CancelStep =>
          /\ editText' = <<>>
          /\ editFiles' = <<>>
          /\ UNCHANGED <<user, loading, entries, text, files, notification,
                         timers, records, blobs, clock, uniq, fetches, tasks,
                         runs>>
     /\ DetachStep =>
          UNCHANGED <<user, loading, entries, text, files, editText,
                      editFiles, notification, timers, records, blobs, clock,
                      uniq, fetches, tasks, runs>>]_vars

\* a draft that Cancel can drop: an image detached, the label changed and
\* files pending, while list and store still hold the entry as it was
C9_Witness ==
  /\ EditRowRendered
  /\ Len(editingEntry.image_urls) = 1
  /\ editText = <<" ", "b">>
  /\ Len(editFiles) = MaxFiles
  /\ \E e \in Range(entries) :
       /\ e.id = editingEntry.id
       /\ Len(e.image_urls) = 2
       /\ e.medicine_name # editText
       /\ e \in records

\* the storage paths of the uploads of a log that succeeded, in call order
RECURSIVE UploadedPaths(_)
UploadedPaths(log) ==
  IF log = <<>> THEN <<>>
  ELSE (IF Head(log).op = "upload" /\ Head(log).res = "ok"
          THEN <<Head(log).arg>> ELSE <<>>) \o UploadedPaths(Tail(log))

\* C10: a save issues one update, for the identifier of the edited entry,
\* with the draft label and with the image list made of the references
\* left in the draft, in their order, followed by the paths of the uploads
\* that succeeded, in the order of the selected files.
C10_SaveUpdatesWholeRow ==
  \A t \in TaskIds :
    LET me == tasks[t]
    IN me.kind = "saveEditedEntry" =>
         /\ me.pc = "upload" => CallsOf(me.log, "update") = {}
         /\ me.pc = "update" =>
              /\ Cardinality(CallsOf(me.log, "update")) = 1
              /\ Cardinality(CallsOf(me.log, "upload")) = Len(me.files)
              /\ \A k \in 1..Len(me.files) :
                   /\ me.log[k].arg[1] = me.user
                   /\ SplitPop(me.log[k].arg, ".") =
                        SplitPop(me.files[k].name, ".")
              /\ LastCall(me.log) =
                   Call("update",
                        [id |-> me.entry.id, medicine_name |-> me.text,
                         image_urls |-> me.entry.image_urls
                                          \o UploadedPaths(me.log)])
         /\ (me.pc = "done" /\ me.log # <<>>) =>
              /\ Cardinality(CallsOf(me.log, "update")) = 1
              /\ LastCall(me.log).op = "update"

\* the update of a save is in flight for a draft with one image left, one
\* upload failed and one succeeded
C10_Witness ==
  \E t \in TaskIds :
    /\ tasks[t].kind = "saveEditedEntry"
    /\ tasks[t].pc = "update"
    /\ Len(tasks[t].entry.image_urls) = 1
    /\ Len(tasks[t].log) = 3
    /\ tasks[t].log[1].res = "error"
    /\ tasks[t].log[2].res = "ok"
    /\ Len(LastCall(tasks[t].log).arg.image_urls) = 2

\* C11: detaching an image from the draft takes references out of the
\* draft's image list and changes nothing else: no call is issued and the
\* blob store stays as it is; and when a save then succeeds, every
\* reference of the stored row that the update drops is still a blob of
\* the blob store while no row references it any more.
C11_DetachLeavesBlob ==
  [][/\ DetachStep =>
          /\ editingEntry' =
               [editingEntry EXCEPT !.image_urls = editingEntry'.image_urls]
          /\ Range(editingEntry'.image_urls) \subseteq
               Range(editingEntry.image_urls)
          /\ UNCHANGED <<blobs, records, entries, tasks, fetches, uniq>>
     /\ \A t \in TaskIds :
          (Ends(t, "saveEditedEntry") /\ LastCall(tasks'[t].log).res = "ok") =>
            \A r \in records :
              r.id = tasks[t].entry.id =>
                \A path \in Range(r.image_urls) \
                             Range(LastCall(tasks'[t].log).arg.image_urls) :
                  /\ path \in blobs'
                  /\ path \notin BlobsOf(records')]_vars

\* a save succeeded after an image was detached: its blob is stored, and
\* no row refers to it
C11_Witness ==
  \E t \in TaskIds :
    /\ tasks[t].kind = "saveEditedEntry"
    /\ tasks[t].pc = "done"
    /\ tasks[t].log # <<>>
    /\ LastCall(tasks[t].log).res = "ok"
    /\ \E path \in Range(RowOne.image_urls) :
         /\ path \in blobs
         /\ path \notin BlobsOf(records)

\* two characters are the same letter, whatever their case
SameLetter(c, d) == c = d \/ {c, d} \in {{"A", "a"}, {"B", "b"}}

\* term occurs in label when case is ignored
OccursIn(term, label) ==
  \E i \in 0..(Len(label) - Len(term)) :
    \A j \in 1..Len(term) : SameLetter(label[i + j], term[j])

\* C12: the filtered list is the subsequence, in list order, of exactly
\* the entries whose label contains the search term when case is ignored;
\* with the empty term it is the whole list.
C12_FilterIsSubsequence ==
  LET idx == {k \in 1..Len(entries) :
                OccursIn(searchTerm, entries[k].medicine_name)}
  IN /\ Len(filteredEntries) = Cardinality(idx)
     /\ \A n \in 1..Len(filteredEntries) :
          \E k \in idx :
            /\ Cardinality({j \in idx : j < k}) = n - 1
            /\ filteredEntries[n] = entries[k]
     /\ searchTerm = <<>> => filteredEntries = entries

\* the term "a" finds the entry labelled "A/B" as well as the one labelled
\* "a", in list order
C12_Witness ==
  /\ PageRendered
  /\ searchTerm = <<"a">>
  /\ Len(entries) = 2
  /\ filteredEntries = entries
  /\ entries[2].medicine_name = <<"A", "/", "B">>

\* the operations on the record store and on the blob store
StoreOps ==
  {"select", "insert", "update", "delete", "deleteByOwner", "upload", "remove"}

TableExports == {"exportCSV", "exportXLSX"}

\* C13: exportCSV and exportXLSX alike take the list as it is loaded at
\* the click and save one file, entries.csv or entries.xlsx, with one data
\* row per entry of that list, in list order, holding the entry's label
\* and the length of its image list; they issue no call to the record
\* store or the blob store and no refresh.
C13_TableHasRowPerEntry ==
  [][\A t \in TaskIds :
       /\ (\E kind \in TableExports : Starts(t, kind)) =>
            /\ tasks'[t].entries = entries
            /\ UNCHANGED <<entries, records, blobs, fetches, downloads>>
       /\ (\E kind \in TableExports : Ends(t, kind)) =>
            LET es == tasks[t].entries
                saved == downloads'[Len(downloads')]
            IN /\ downloads' = Append(downloads, saved)
               /\ saved.name = IF tasks[t].kind = "exportCSV"
                                 THEN "entries.csv" ELSE "entries.xlsx"
               /\ Len(saved.content.rows) = Len(es)
               /\ \A k \in 1..Len(es) :
                    /\ saved.content.rows[k].medicine_name = es[k].medicine_name
                    /\ saved.content.rows[k].image_count = Len(es[k].image_urls)
               /\ \A k \in 1..Len(tasks'[t].log) :
                    tasks'[t].log[k].op \notin StoreOps
               /\ UNCHANGED <<entries, records, blobs, fetches>>]_vars

\* entries.xlsx was saved with two rows, for an entry with two images and
\* an entry without images
C13_Witness ==
  /\ downloads # <<>>
  /\ downloads[1].name = "entries.xlsx"
  /\ Len(downloads[1].content.rows) = 2
  /\ downloads[1].content.rows[1].image_count = 0
  /\ downloads[1].content.rows[2].image_count = 2

\* the image behind url was written into the archive: its body was read
Written(log, url) ==
  \E n \in 1..Len(log) :
    log[n].op = "blob" /\ log[n].arg = url /\ log[n].res = "ok"

\* the 1-based index in the name of an image file, 0 for another name
IndexOf(name) ==
  IF name[1] = "image_"
    THEN CHOOSE k \in 1..9 : ImageName(k, <<>>)[2] = name[2]
    ELSE 0

\* the pairs of list positions of entries whose labels give one folder name
Collisions(es) ==
  {p \in (1..Len(es)) \X (1..Len(es)) :
     /\ p[1] < p[2]
     /\ FolderName(es[p[1]].medicine_name) = FolderName(es[p[2]].medicine_name)}

\* the image files of entry a in the folder, and the indexes entry b wrote
ImagesOf(zip, es, a) ==
  {f \in zip.files :
     /\ f.folder = FolderName(es[a].medicine_name)
     /\ f.data.type = "bytes"
     /\ f.data.of \in Range(es[a].image_urls)}
WrittenIndexes(log, es, b) ==
  {k \in 1..Len(es[b].image_urls) : Written(log, es[b].image_urls[k])}

\* C14 as stated: of two entries with one folder name the archive holds
\* one folder with the label file of the later entry; no image file of
\* the earlier entry is left at an index the later entry wrote, and every
\* image the earlier entry wrote at another index is left.
C14_SameIndexOverwrites ==
  [][\A t \in TaskIds :
       Ends(t, "exportZIP") =>
         LET es == tasks[t].entries
             log == tasks'[t].log
             zip == downloads'[Len(downloads')].content
         IN \A p \in Collisions(es) :
              LET a == p[1]
                  b == p[2]
                  folderName == FolderName(es[a].medicine_name)
              IN /\ folderName \in zip.folders
                 /\ \A f \in zip.files :
                      (f.folder = folderName /\ f.data.type = "text") =>
                        f.data.of # es[a].medicine_name
                 /\ \A f \in ImagesOf(zip, es, a) :
                      IndexOf(f.name) \notin WrittenIndexes(log, es, b)
                 /\ \A k \in 1..Len(es[a].image_urls) :
                      (Written(log, es[a].image_urls[k])
                         /\ k \notin WrittenIndexes(log, es, b)) =>
                        \E f \in ImagesOf(zip, es, a) :
                          f.data.of = es[a].image_urls[k]]_vars

\* C14 amended: of two entries with one folder name the archive holds one
\* folder of that name, with the label file of the later entry; an image
\* the earlier entry wrote is left in it exactly when the later entry
\* wrote no image of the same file name, that is of the same index and
\* the same extension.
C14_SameNameOverwrites ==
  [][\A t \in TaskIds :
       Ends(t, "exportZIP") =>
         LET es == tasks[t].entries
             log == tasks'[t].log
             zip == downloads'[Len(downloads')].content
         IN \A p \in Collisions(es) :
              LET a == p[1]
                  b == p[2]
                  folderName == FolderName(es[a].medicine_name)
              IN /\ folderName \in zip.folders
                 /\ \A f \in zip.files :
                      (f.folder = folderName /\ f.data.type = "text") =>
                        f.data.of # es[a].medicine_name
                 /\ \A k \in 1..Len(es[a].image_urls) :
                      LET url == es[a].image_urls[k]
                          mine == [folder |-> folderName,
                                   name |-> ImageName(k, url),
                                   data |-> FetchedData(url)]
                      IN Written(log, url) =>
                           (mine \in zip.files <=>
                              \A j \in WrittenIndexes(log, es, b) :
                                ImageName(j, es[b].image_urls[j]) # mine.name)]_vars

\* an archive of two entries with one folder name: image 1 of the earlier
\* entry is replaced, its image 2 is left beside the image 2 of the later
\* entry, which has another extension, and its image 3 is left
C14_Witness ==
  /\ downloads # <<>>
  /\ downloads[1].name = "entries.zip"
  /\ LET zip == downloads[1].content
         In(name, url) ==
           [folder |-> <<"A", "_", "B">>, name |-> name,
            data |-> FetchedData(url)] \in zip.files
     IN /\ zip.folders = {<<"A", "_", "B">>}
        /\ In(<<"image_", "1", ".", "p">>, RowOne.image_urls[1])
        /\ In(<<"image_", "2", ".", "j", "p", "g">>, RowOne.image_urls[2])
        /\ In(<<"image_", "2", ".", "y">>, RowThree.image_urls[2])
        /\ In(<<"image_", "3", ".", "p">>, RowThree.image_urls[3])
        /\ Cardinality(zip.files) = 5

\* the positions of the images of a list: entry and 1-based index
ImagePositions(es) ==
  {p \in (1..Len(es)) \X (1..9) : p[2] <= Len(es[p[1]].image_urls)}

\* C15: whatever fetches fail, exportZIP fetches every image of every
\* entry once and saves entries.zip; the archive holds for every entry
\* its folder with a medicine_name.txt; a file made from an image has the
\* name of the image's own index in its entry's list; an image whose
\* fetch failed is in no file; and an image that was fetched is in the
\* archive unless an entry further down the list wrote a file of the same
\* name into the same folder.
C15_FailedFetchOmitsOneImage ==
  [][\A t \in TaskIds :
       Ends(t, "exportZIP") =>
         LET es == tasks[t].entries
             log == tasks'[t].log
             zip == tasks[t].zip
             File(p) ==
               [folder |-> FolderName(es[p[1]].medicine_name),
                name |-> ImageName(p[2], es[p[1]].image_urls[p[2]]),
                data |-> FetchedData(es[p[1]].image_urls[p[2]])]
         IN /\ downloads' =
                 Append(downloads, [name |-> "entries.zip", content |-> zip])
            /\ \A e \in 1..Len(es) :
                 /\ FolderName(es[e].medicine_name) \in zip.folders
                 /\ \E f \in zip.files :
                      /\ f.folder = FolderName(es[e].medicine_name)
                      /\ f.name = <<"medicine_name.txt">>
            /\ \A p \in ImagePositions(es) :
                 LET url == es[p[1]].image_urls[p[2]]
                 IN /\ Cardinality({n \in CallsOf(log, "fetch") :
                                       log[n].arg = url}) = 1
                    /\ \A f \in zip.files :
                         f.data = FetchedData(url) => f = File(p)
                    /\ ~Written(log, url) => File(p) \notin zip.files
                    /\ Written(log, url) =>
                         \/ File(p) \in zip.files
                         \/ \E q \in ImagePositions(es) :
                              /\ q[1] > p[1]
                              /\ File(q).folder = File(p).folder
                              /\ File(q).name = File(p).name
                              /\ Written(log, es[q[1]].image_urls[q[2]])]_vars

\* an archive was saved although the fetch of the first image of an entry
\* failed: the second image is in it as image_2, and the entry without
\* images has its folder
C15_Witness ==
  /\ downloads # <<>>
  /\ downloads[1].name = "entries.zip"
  /\ LET zip == downloads[1].content
     IN /\ zip.folders = {<<"A", "_", "B">>, <<"a">>}
        /\ \A f \in zip.files : f.data # FetchedData(RowOne.image_urls[1])
        /\ [folder |-> <<"A", "_", "B">>,
            name |-> <<"image_", "2", ".", "j", "p", "g">>,
            data |-> FetchedData(RowOne.image_urls[2])] \in zip.files
        /\ Cardinality(zip.files) = 3
  /\ \E t \in TaskIds :
       /\ tasks[t].kind = "exportZIP"
       /\ tasks[t].pc = "done"
       /\ tasks[t].log[1] =
            [op |-> "fetch", arg |-> RowOne.image_urls[1], res |-> "error"]

\* C16 as stated: every image exportZIP fetches is fetched from the
\* location getPublicUrl gives for its stored reference.
C16_FetchesResolvedLocation ==
  \A t \in TaskIds :
    (tasks[t].kind = "exportZIP" /\ tasks[t].pc = "fetch") =>
      LastCall(tasks[t].log).arg =
        getPublicUrl(tasks[t].entries[tasks[t].e].image_urls[tasks[t].i])

\* the extension of a location: what follows its last dot, nothing when
\* it has no dot or ends with one
ExtensionOf(url) ==
  LET dots == {k \in 1..Len(url) : url[k] = "."}
  IN IF dots = {} THEN <<>>
     ELSE SubSeq(url, (CHOOSE k \in dots : \A j \in dots : j <= k) + 1,
                 Len(url))

\* C17: every image file of the archive exportZIP builds is named image_i
\* with i the 1-based index of the image in its entry's list, followed by
\* a dot and the extension of the location it was fetched from, or by
\* .jpg when that location has no extension.
C17_ExtensionOrJpg ==
  \A t \in TaskIds :
    tasks[t].kind = "exportZIP" =>
      \A f \in tasks[t].zip.files :
        f.data.type = "bytes" =>
          \E p \in ImagePositions(tasks[t].entries) :
            /\ f.data.of = tasks[t].entries[p[1]].image_urls[p[2]]
            /\ f.name[1] = "image_"
            /\ IndexOf(f.name) = p[2]
            /\ f.name[3] = "."
            /\ SubSeq(f.name, 4, Len(f.name)) =
                 IF ExtensionOf(f.data.of) = <<>>
                   THEN <<"j", "p", "g">>
                   ELSE ExtensionOf(f.data.of)

\* the archive in the making holds image_1.p, fetched from a location
\* that ends with .p, and image_2.jpg, fetched from a location that ends
\* with a dot
C17_Witness ==
  \E t \in TaskIds :
    /\ tasks[t].kind = "exportZIP"
    /\ \E f, g \in tasks[t].zip.files :
         /\ f.name = <<"image_", "1", ".", "p">>
         /\ ExtensionOf(f.data.of) = <<"p">>
         /\ g.name = <<"image_", "2", ".", "j", "p", "g">>
         /\ g.data.type = "bytes"
         /\ ExtensionOf(g.data.of) = <<>>

\* the step issues a call to the record store or the blob store: a handler
\* appends it to its log, or a refresh sends its select
IssuesStoreCall ==
  \/ \E t \in TaskIds :
       /\ tasks'[t].log # tasks[t].log
       /\ tasks'[t].log # <<>>
       /\ LastCall(tasks'[t].log).res = "pending"
       /\ LastCall(tasks'[t].log).op \in StoreOps
  \/ Len(fetches') > Len(fetches)

\* C18 as stated: no call to the record store or the blob store is issued
\* while the page holds no user, whenever a session change arrives.
C18_NoCallWithoutIdentity ==
  [][IssuesStoreCall => user' # NoUser]_vars

\* C19: a handler that has started returns in the end, whichever of its
\* calls fail, and a refresh in flight ends, when every call returns in
\* the end.
C19_HandlersComplete ==
  /\ (\E t \in TaskIds : Active(t)) ~> (\A t \in TaskIds : ~Active(t))
  /\ (fetches # <<>>) ~> (fetches = <<>>)

\* a submit has returned after every upload and the insert had failed
C19_Witness ==
  \E t \in TaskIds :
    /\ tasks[t].kind = "handleSubmit"
    /\ tasks[t].pc = "done"
    /\ Len(tasks[t].log) = MaxFiles + 1
    /\ \A k \in 1..Len(tasks[t].log) : tasks[t].log[k].res = "error"

Uploaders == {"handleSubmit", "saveEditedEntry"}

\* C20: in a submit and in a save at most one call is in flight, the one
\* issued last; the uploads are issued in the order of the selected
\* files; the insert or update is the call after the last upload; and its
\* image list, which is the one the row gets, ends with the paths of the
\* uploads that succeeded, in the order of the uploads.
C20_UploadsOneAtATime ==
  \A t \in TaskIds :
    LET me == tasks[t]
        log == me.log
        uploads == CallsOf(log, "upload")
        writes == CallsOf(log, "insert") \cup CallsOf(log, "update")
    IN (me.kind \in Uploaders /\ log # <<>>) =>
         /\ \A k \in 1..(Len(log) - 1) : log[k].res \in {"ok", "error"}
         /\ \A k \in uploads, w \in writes : k < w
         /\ Cardinality(writes) <= 1
         /\ writes \subseteq {Len(log)}
         /\ Active(t) =>
              /\ uploads \subseteq 1..Len(me.files)
              /\ writes # {} => uploads = 1..Len(me.files)
              /\ \A k \in uploads :
                   SplitPop(log[k].arg, ".") = SplitPop(me.files[k].name, ".")
         /\ \A w \in writes :
              LET stored == log[w].arg.image_urls
                  new == UploadedPaths(log)
              IN /\ Len(new) <= Len(stored)
                 /\ SubSeq(stored, Len(stored) - Len(new) + 1, Len(stored)) = new
                 /\ me.kind = "handleSubmit" => stored = new
                 /\ log[w].res = "ok" =>
                      \E r \in records : r.image_urls = stored

\* a submit stored a row with the paths of its two uploads, in the order
\* of its two files
C20_Witness ==
  \E t \in TaskIds :
    /\ tasks[t].kind = "handleSubmit"
    /\ tasks[t].pc = "done"
    /\ Len(tasks[t].log) = 3
    /\ \E r \in records :
         /\ r.image_urls = <<tasks[t].log[1].arg, tasks[t].log[2].arg>>
         /\ SplitPop(r.image_urls[1], ".") = SplitPop(FileP.name, ".")
         /\ SplitPop(r.image_urls[2], ".") = SplitPop(FileQ.name, ".")

\* the number of image references of the first n entries of a list
RECURSIVE ImagesBefore(_, _)
ImagesBefore(es, n) ==
  IF n = 0 THEN 0 ELSE ImagesBefore(es, n - 1) + Len(es[n].image_urls)

\* C21: a confirmed clearAll over a list with at least one image
\* reference issues first one blob removal, for the image references of
\* all entries of the list in list order, and then, whether the removal
\* succeeded or failed, one deletion of the rows of the user; it issues
\* no other call.
C21_ClearIssuesOneOfEach ==
  \A t \in TaskIds :
    LET me == tasks[t]
        es == me.entries
        log == me.log
    IN (me.kind = "clearAll" /\ log # <<>>
          /\ ImagesBefore(es, Len(es)) > 0) =>
         /\ log[1].op = "remove"
         /\ Len(log[1].arg) = ImagesBefore(es, Len(es))
         /\ \A p \in ImagePositions(es) :
              log[1].arg[ImagesBefore(es, p[1] - 1) + p[2]] =
                es[p[1]].image_urls[p[2]]
         /\ me.pc = "remove" <=> Len(log) = 1
         /\ me.pc # "remove" =>
              /\ Len(log) = 2
              /\ log[1].res \in {"ok", "error"}
              /\ log[2].op = "deleteByOwner"
              /\ log[2].arg = user

\* the rows are being deleted after the removal of the five images of two
\* entries has failed
C21_Witness ==
  \E t \in TaskIds :
    /\ tasks[t].kind = "clearAll"
    /\ tasks[t].pc = "delete"
    /\ tasks[t].log[1].res = "error"
    /\ tasks[t].log[1].arg = RowThree.image_urls \o RowOne.image_urls

\* C22: when the lookup of deleteEntry fails the handler returns: it
\* issues no blob removal and no deletion, shows no notification and
\* leaves the list, the stores and the refreshes as they are; when the
\* lookup returns a row without image references, the deletion of the row
\* is the next call and no blob removal is issued.
C22_LookupFailureStopsDelete ==
  [][\A t \in TaskIds :
       (tasks[t].kind = "deleteEntry" /\ tasks[t].pc = "lookup"
          /\ tasks'[t] # tasks[t]) =>
         LET log == tasks'[t].log
         IN IF log[1].res = "error"
              THEN /\ tasks'[t].pc = "done"
                   /\ Len(log) = 1
                   /\ UNCHANGED <<entries, notification, timers, records,
                                  blobs, fetches>>
              ELSE /\ log[1].res = "ok"
                   /\ tasks'[t].entry \in records
                   /\ tasks'[t].entry.image_urls = <<>> =>
                        /\ tasks'[t].pc = "delete"
                        /\ Len(log) = 2
                        /\ log[2] = Call("delete", tasks[t].entry.id)
                        /\ blobs' = blobs]_vars

\* deleteEntry has returned after its lookup failed: the entry is still
\* listed and stored, and no notification is shown
C22_Witness ==
  \E t \in TaskIds :
    /\ tasks[t].kind = "deleteEntry"
    /\ tasks[t].pc = "done"
    /\ Len(tasks[t].log) = 1
    /\ tasks[t].log[1].res = "error"
    /\ Len(entries) = 2
    /\ Range(entries) = records
    /\ notification = NoNotification
    /\ timers = 0

\* C23 as stated: every entry of the list belongs to the user the page
\* holds, and the list is empty while it holds none.
C23_EntriesOwnedByUser ==
  \A k \in 1..Len(entries) : user # NoUser /\ entries[k].user_id = user

\* no handler is running and no refresh is in flight
Quiescent ==
  /\ \A t \in TaskIds : ~Active(t)
  /\ fetches = <<>>

\* C24 as stated: when every handler has returned and the answer of
\* every refresh has arrived, none of them an error, the list holds the
\* rows the store has for the user, newest first.
C24_ListMatchesStoreAtRest ==
  Quiescent => entries = SelectByOwner(user)

\* C25 as stated: when a clearAll returns after its image deletion and
\* its deletion of the rows have both succeeded, the blob store holds no
\* image of a row that this deletion took out of the record store.
C25_ClearLeavesNoOrphan ==
  [][\A t \in TaskIds :
       (/\ Ends(t, "clearAll")
        /\ OkCallsOf(tasks'[t].log, "remove") # {}
        /\ OkCallsOf(tasks'[t].log, "deleteByOwner") # {}) =>
         BlobsOf(records \ records') \cap blobs' = {}]_vars

\* C26 as stated: the notification on display goes away only when its own
\* timer fires. Every timer has the same delay, so timers fire in the
\* order they were started and the timer of the notification on display,
\* the one shown last, is the last one pending.
C26_DismissedByOwnTimer ==
  [][(notification # NoNotification /\ notification' = NoNotification) =>
       timers = 1]_vars

\* C27 as stated: no two submits that read the same label and the same
\* file selection, the second one started while the first was suspended,
\* both get to issue their insert.
C27_OneInsertPerForm ==
  \A t, q \in TaskIds :
    (/\ t # q
     /\ tasks[t].kind = "handleSubmit" /\ Active(t)
     /\ tasks[q].kind = "handleSubmit" /\ Active(q)
     /\ tasks[t].text = tasks[q].text
     /\ tasks[t].files = tasks[q].files) =>
      ~(tasks[t].pc = "insert" /\ tasks[q].pc = "insert")
====
